---- MODULE Spec2Model ----
(***************************************************************************)
(* Model of nova/cells/manager.py (CellsManager): the periodic            *)
(* reconciliation task _heal_instances with its cursor instances_to_heal, *)
(* and the response aggregation done by the broadcast operations.         *)
(***************************************************************************)
EXTENDS Integers, Sequences, FiniteSets, TLC

(* ---------------------------------------------------------------------- *)
(* Bounds and value sets                                                   *)
(* ---------------------------------------------------------------------- *)

\* most responses (one per cell) a broadcast brings back
MaxResponses == 2

\* longest list a cell answers with
MaxItems == 2

\* largest number in a cell's compute node statistics
MaxVal == 2

\* most names in a cell path
MaxSegs == 2

\* most characters in an item or a host
MaxStr == 2

\* largest configured instance_update_num_instances explored
MaxNum == 2

\* how many cursor pulls since construction are recorded in pull_log
MaxPulls == 4

\* instance uuids held by the record store
IDs == {"r1", "r2", "r3"}

\* the value _next_instance returns when nothing is left (Python None)
Empty == "None"

\* values of CONF.cells.instance_updated_at_threshold explored (0 disables)
Thresholds == {0, 3600}

\* what state_manager.get_parent_cells() may return (a list; only its
\* truthiness is used by the manager)
ParentCellLists == {<<>>, <<"parent">>}

VARIABLES
    parent_cells,       \* state_manager.get_parent_cells()
    num_instances,      \* CONF.cells.instance_update_num_instances
    threshold,          \* CONF.cells.instance_updated_at_threshold
    instances_to_heal,  \* self.instances_to_heal: what the iterator has left
    pc,                 \* position of _heal_instances
    updated_list,       \* info['updated_list']
    i,                  \* the for loop's slot index
    instance_uuid,      \* result of the last _next_instance()
    instance,           \* record returned by db.instance_get_by_uuid
    updated_since,      \* argument of the last get_instances_to_sync
    exit,               \* how the last tick left _heal_instances
    yields,             \* time.sleep(0) calls in this tick
    pulls,              \* _next_instance() calls in this tick
    scans,              \* get_instances_to_sync calls in this tick
    found_live,         \* lookups in this tick that found deleted = False
    found_deleted,      \* lookups in this tick that found deleted = True
    not_found,          \* lookups in this tick raising InstanceNotFound
    updates,            \* instance_update_at_top emissions in this tick
    destroys,           \* instance_destroy_at_top emissions in this tick
    failed,             \* emissions in this tick the transport failed
    backlog,            \* Len(instances_to_heal) when this tick started
    scanned,            \* number of IDs the scan of this tick returned
    pull_log,           \* the first MaxPulls pulls since construction
    op,                 \* the broadcast operation being served, if any
    responses,          \* the responses msg_runner handed to it
    outcome,            \* what the operation returned or raised
    child_cells,        \* state_manager.get_child_cells()
    started,            \* post_start_hook has run
    sent,               \* what the operation handed to the driver and msg_runner
    addr,               \* the target address being written out
    literal,            \* its literal form
    parsed              \* what the literal is read back as

healvars == <<parent_cells, num_instances, threshold, instances_to_heal, pc,
              updated_list, i, instance_uuid, instance, updated_since, exit>>
tickvars == <<yields, pulls, scans, found_live, found_deleted, not_found,
              updates, destroys, failed, backlog, scanned>>
histvars == <<pull_log>>
aggvars == <<op, responses, outcome>>
mgrvars == <<child_cells, started, sent>>
addrvars == <<addr, literal, parsed>>
vars == <<healvars, tickvars, histvars, aggvars, mgrvars, addrvars>>

\* sequences over S without repetition, of length at most n
DistinctSeqs(S, n) ==
    {s \in UNION {[1..k -> S] : k \in 0..n} :
        \A a, b \in DOMAIN s : a # b => s[a] # s[b]}

\* cells_utils.get_instances_to_sync(ctxt, updated_since, shuffle=True,
\* uuids_only=True): the uuids of the instances needing sync, each once, in
\* randomized order; the store's content is the environment's choice
get_instances_to_sync(since) == DistinctSeqs(IDs, Cardinality(IDs))

\* db.instance_get_by_uuid(rd_context, uuid): the record as read (deleted
\* rows included, read_deleted = 'yes'), or InstanceNotFound
\* (found = FALSE)
instance_get_by_uuid(uuid) ==
    {[uuid |-> uuid, found |-> FALSE, deleted |-> FALSE]}
        \cup {[uuid |-> uuid, found |-> TRUE, deleted |-> d] : d \in BOOLEAN}

\* the local "instance" before any lookup
NoInstance == [uuid |-> Empty, found |-> FALSE, deleted |-> FALSE]

\* msg_runner.instance_update_at_top / instance_destroy_at_top: an upward
\* broadcast; a failure of the transport is logged by the message runner
\* and is not raised into the caller
EmissionRaises(ok) == FALSE

\* names of the responding cells
Cells == {"cellA", "cellB"}

\* failures a response may carry
Failures == {"E1", "E2"}

\* entries of the lists the cells answer with (services, task logs,
\* compute nodes)
Items == {1, 2}

\* keys of the compute node statistics
Keys == {"x", "y"}

\* a messaging.Response: the cell's name and either a value or a failure
\* that value_or_raise() will raise
Response(cell, failure, value) ==
    [cell_name |-> cell, failure |-> failure, value |-> value]

\* all sequences over S of length at most n
SeqsUpTo(S, n) == UNION {[1..k -> S] : k \in 0..n}

\* the responses of a list broadcast
ListResponse ==
    {Response(c, "none", l) : c \in Cells, l \in SeqsUpTo(Items, MaxItems)}
        \cup {Response(c, f, <<>>) : c \in Cells, f \in Failures}

\* the dicts a cell answers compute_node_stats with
StatsMaps == UNION {[K -> 0..MaxVal] : K \in SUBSET Keys}

\* the responses of the statistics broadcast
StatsResponse ==
    {Response(c, "none", m) : c \in Cells, m \in StatsMaps}
        \cup {Response(c, f, <<>>) : c \in Cells, f \in Failures}

\* outcome of an operation: a returned value, or the failure raised
Returned(v) == [returned |-> TRUE, raised |-> "none", value |-> v]
Raised(f) == [returned |-> FALSE, raised |-> f, value |-> <<>>]
NoReturn == [returned |-> FALSE, raised |-> "none", value |-> <<>>]

\* a TargetAddress: the cell path's names, the item, and the host (in a
\* one-element sequence) or no host (the empty sequence)
Address(path, item, host) == [cell_path |-> path, item |-> item, host |-> host]

\* no address at hand
NoAddress == Address(<<>>, <<>>, <<>>)

Init ==
    /\ parent_cells \in ParentCellLists
    /\ num_instances \in 0..MaxNum
    /\ threshold \in Thresholds
    /\ instances_to_heal = <<>>
    /\ pc = "idle"
    /\ updated_list = FALSE
    /\ i = 0
    /\ instance_uuid = Empty
    /\ instance = NoInstance
    /\ updated_since = Empty
    /\ exit = "none"
    /\ yields = 0 /\ pulls = 0 /\ scans = 0
    /\ found_live = 0 /\ found_deleted = 0 /\ not_found = 0
    /\ updates = 0 /\ destroys = 0 /\ failed = 0
    /\ backlog = 0 /\ scanned = 0
    /\ pull_log = <<>>
    /\ op = "none"
    /\ responses = <<>>
    /\ outcome = NoReturn
    /\ child_cells = <<>>
    /\ started = FALSE
    /\ sent = <<>>
    /\ addr = NoAddress
    /\ literal = <<>>
    /\ parsed = NoAddress

(* ---------------------------------------------------------------------- *)
(* _heal_instances                                                         *)
(* ---------------------------------------------------------------------- *)

heal_instances_start_unchecked ==
    /\ pc = "idle"
    /\ yields' = 0 /\ pulls' = 0 /\ scans' = 0
    /\ found_live' = 0 /\ found_deleted' = 0 /\ not_found' = 0
    /\ updates' = 0 /\ destroys' = 0 /\ failed' = 0
    /\ backlog' = Len(instances_to_heal) /\ scanned' = 0
    /\ i' = 0
    /\ updated_list' = FALSE
    /\ IF 0 < num_instances
         THEN pc' = "yield" /\ exit' = "none"
         ELSE pc' = "idle" /\ exit' = "budget"
    /\ UNCHANGED <<parent_cells, num_instances, threshold, instances_to_heal,
                   instance_uuid, instance, updated_since, pull_log, aggvars, mgrvars, addrvars>>

heal_instances_start_afresh ==
    /\ pc = "idle"
    /\ yields' = 0 /\ pulls' = 0 /\ scans' = 0
    /\ found_live' = 0 /\ found_deleted' = 0 /\ not_found' = 0
    /\ updates' = 0 /\ destroys' = 0 /\ failed' = 0
    /\ backlog' = Len(instances_to_heal) /\ scanned' = 0
    /\ i' = 0
    /\ IF parent_cells = <<>>
         THEN /\ exit' = "no_parents"
              /\ pc' = "idle"
              /\ UNCHANGED updated_list
         ELSE /\ updated_list' = FALSE
              /\ IF 0 < num_instances
                   THEN pc' = "yield" /\ exit' = "none"
                   ELSE pc' = "idle" /\ exit' = "budget"
    /\ instances_to_heal' = <<>>
    /\ UNCHANGED <<parent_cells, num_instances, threshold,
                   instance_uuid, instance, updated_since, pull_log, aggvars, mgrvars, addrvars>>

\* entry of the periodic task: the parent check, info = {'updated_list':
\* False}, and the head of "for i in xrange(num_instances)"
heal_instances_start ==
    /\ pc = "idle"
    /\ yields' = 0 /\ pulls' = 0 /\ scans' = 0
    /\ found_live' = 0 /\ found_deleted' = 0 /\ not_found' = 0
    /\ updates' = 0 /\ destroys' = 0 /\ failed' = 0
    /\ backlog' = Len(instances_to_heal) /\ scanned' = 0
    /\ i' = 0
    /\ IF parent_cells = <<>>
         THEN /\ exit' = "no_parents"
              /\ pc' = "idle"
              /\ UNCHANGED updated_list
         ELSE /\ updated_list' = FALSE
              /\ IF 0 < num_instances
                   THEN pc' = "yield" /\ exit' = "none"
                   ELSE pc' = "idle" /\ exit' = "budget"
    /\ UNCHANGED <<parent_cells, num_instances, threshold, instances_to_heal,
                   instance_uuid, instance, updated_since, pull_log, aggvars, mgrvars, addrvars>>

\* time.sleep(0): the cooperative yield at the top of "while True"
heal_instances_yield ==
    /\ pc = "yield"
    /\ pc' = "pull"
    /\ yields' = yields + 1
    /\ UNCHANGED <<parent_cells, num_instances, threshold, instances_to_heal,
                   updated_list, i, instance_uuid, instance, updated_since,
                   exit, pulls, scans, found_live, found_deleted, not_found,
                   updates, destroys, failed, backlog, scanned, pull_log,
                   aggvars, mgrvars, addrvars>>

\* updated_since as _next_instance computes it from the threshold
UpdatedSince(t) == IF t > 0 THEN "utcnow-threshold" ELSE Empty

\* what one pull adds to the record of the first MaxPulls pulls
\* (val: what it returned, nth: its rank among the pulls of its tick,
\* scan: the results of the scans it made)
LogPull(log, val, scan) ==
    IF log /\ Len(pull_log) < MaxPulls
      THEN Append(pull_log, [val |-> val, nth |-> pulls + 1, scan |-> scan])
      ELSE pull_log

IterNextStuck(it) == [value |-> Head(it), rest |-> it]

\* next() of a non-exhausted iterator: the next uuid, and what is left
IterNext(it) == [value |-> Head(it), rest |-> Tail(it)]

AfterPullWaitsForBudget(ret) ==
    /\ instance_uuid' = ret
    /\ IF ret = Empty
         THEN pc' = "yield" /\ UNCHANGED exit
         ELSE pc' = "lookup" /\ UNCHANGED exit

\* the caller's side of "instance_uuid = _next_instance()": return from the
\* task when nothing came back, else go on to the lookup
AfterPull(ret) ==
    /\ instance_uuid' = ret
    /\ IF ret = Empty
         THEN pc' = "idle" /\ exit' = "empty"
         ELSE pc' = "lookup" /\ UNCHANGED exit

\* "if info['updated_list']: return": a tick refills only if it has not
\* refilled yet
MayRefillAlways(flag) == TRUE
MayRefill(flag) == ~flag

\* _next_instance(): next() of the iterator; on StopIteration give up if
\* this tick already refilled, else refill once from the record store and
\* try next() once more
NextInstance(log) ==
    /\ pc = "pull"
    /\ pulls' = pulls + 1
    /\ IF instances_to_heal # <<>>
         THEN /\ instances_to_heal' = IterNext(instances_to_heal).rest
              /\ AfterPull(IterNext(instances_to_heal).value)
              /\ pull_log' = LogPull(log, IterNext(instances_to_heal).value, <<>>)
              /\ UNCHANGED <<updated_list, updated_since, scans, scanned>>
         ELSE IF ~MayRefill(updated_list)
           THEN /\ AfterPull(Empty)
                /\ pull_log' = LogPull(log, Empty, <<>>)
                /\ UNCHANGED <<instances_to_heal, updated_list, updated_since,
                               scans, scanned>>
           ELSE \E result \in get_instances_to_sync(UpdatedSince(threshold)) :
                /\ updated_since' = UpdatedSince(threshold)
                /\ updated_list' = TRUE
                /\ scans' = scans + 1
                /\ scanned' = scanned + Len(result)
                /\ IF result = <<>>
                     THEN /\ instances_to_heal' = <<>>
                          /\ AfterPull(Empty)
                          /\ pull_log' = LogPull(log, Empty, <<result>>)
                     ELSE /\ instances_to_heal' = IterNext(result).rest
                          /\ AfterPull(IterNext(result).value)
                          /\ pull_log' = LogPull(log, IterNext(result).value,
                                                 <<result>>)
    /\ UNCHANGED <<parent_cells, num_instances, threshold, i, instance,
                   yields, found_live, found_deleted, not_found, updates,
                   destroys, failed, backlog, aggvars, mgrvars, addrvars>>

\* a pull, as taken in the runs that do not record the pulls
next_instance == NextInstance(FALSE)

\* a pull that is recorded in pull_log; only the first MaxPulls pulls since
\* construction are explored
next_instance_logged == Len(pull_log) < MaxPulls /\ NextInstance(TRUE)

NextSlotOffByOne ==
    /\ i' = i + 1
    /\ IF i + 1 <= num_instances
         THEN pc' = "yield" /\ UNCHANGED exit
         ELSE pc' = "idle" /\ exit' = "budget"

\* the for loop after "break": the next slot, or the end of the task
NextSlot ==
    /\ i' = i + 1
    /\ IF i + 1 < num_instances
         THEN pc' = "yield" /\ UNCHANGED exit
         ELSE pc' = "idle" /\ exit' = "budget"

AfterNotFoundBreak == NextSlot

AfterNotFoundNoYield == pc' = "pull" /\ UNCHANGED <<i, exit>>

\* "except exception.InstanceNotFound: continue": back to the top of
\* "while True" in the same slot
AfterNotFound == pc' = "yield" /\ UNCHANGED <<i, exit>>

\* instance = self.db.instance_get_by_uuid(rd_context, instance_uuid)
heal_instances_lookup ==
    /\ pc = "lookup"
    /\ \E r \in instance_get_by_uuid(instance_uuid) :
         IF ~r.found
           THEN /\ not_found' = not_found + 1
                /\ AfterNotFound
                /\ UNCHANGED <<instance, found_live, found_deleted>>
           ELSE /\ instance' = r
                /\ pc' = "sync"
                /\ UNCHANGED <<i, exit>>
                /\ found_live' = found_live + (IF r.deleted THEN 0 ELSE 1)
                /\ found_deleted' = found_deleted + (IF r.deleted THEN 1 ELSE 0)
                /\ UNCHANGED not_found
    /\ UNCHANGED <<parent_cells, num_instances, threshold, instances_to_heal,
                   updated_list, instance_uuid, updated_since,
                   yields, pulls, scans, updates, destroys, failed, backlog,
                   scanned, pull_log, aggvars, mgrvars, addrvars>>

sync_instance_inverted(inst) == IF inst.deleted THEN "update" ELSE "destroy"

\* _sync_instance's choice of the message
sync_instance(inst) == IF inst.deleted THEN "destroy" ELSE "update"

AfterEmissionAbort(ok) ==
    IF ~ok
      THEN pc' = "idle" /\ exit' = "raised" /\ UNCHANGED i
      ELSE NextSlot

\* what follows the call of _sync_instance: an exception leaves the task,
\* a normal return reaches "break"
AfterEmission(ok) ==
    IF EmissionRaises(ok)
      THEN pc' = "idle" /\ exit' = "raised" /\ UNCHANGED i
      ELSE NextSlot

\* self._sync_instance(ctxt, instance) followed by "break"
heal_instances_sync ==
    /\ pc = "sync"
    /\ \E ok \in BOOLEAN :
         /\ updates' = updates + (IF sync_instance(instance) = "update" THEN 1 ELSE 0)
         /\ destroys' = destroys + (IF sync_instance(instance) = "destroy" THEN 1 ELSE 0)
         /\ failed' = failed + (IF ok THEN 0 ELSE 1)
         /\ AfterEmission(ok)
    /\ UNCHANGED <<parent_cells, num_instances, threshold, instances_to_heal,
                   updated_list, instance_uuid, instance, updated_since,
                   yields, pulls, scans, found_live, found_deleted, not_found,
                   backlog, scanned, pull_log, aggvars, mgrvars, addrvars>>

\* the topology store reloads the cell table: get_parent_cells() may
\* answer differently from one tick to the next
cells_reloaded ==
    /\ \E p \in ParentCellLists \ {parent_cells} : parent_cells' = p
    /\ UNCHANGED <<num_instances, threshold, instances_to_heal, pc,
                   updated_list, i, instance_uuid, instance, updated_since,
                   exit, tickvars, histvars, aggvars, mgrvars, addrvars>>

Next ==
    \/ cells_reloaded
    \/ heal_instances_start
    \/ heal_instances_yield
    \/ next_instance
    \/ heal_instances_lookup
    \/ heal_instances_sync

Spec == Init /\ [][Next]_vars

\* the same task with its first MaxPulls cursor pulls recorded
NextCursor ==
    \/ cells_reloaded
    \/ heal_instances_start
    \/ heal_instances_yield
    \/ next_instance_logged
    \/ heal_instances_lookup
    \/ heal_instances_sync

SpecCursor == Init /\ [][NextCursor]_vars

TypeOK ==
    /\ pc \in {"idle", "yield", "pull", "lookup", "sync"}
    /\ i \in 0..num_instances
    /\ instances_to_heal \in DistinctSeqs(IDs, Cardinality(IDs))

(* ---------------------------------------------------------------------- *)
(* Broadcasts and the aggregation of their responses                       *)
(* ---------------------------------------------------------------------- *)

\* response.value_or_raise() raises the failure the response carries
Raises(response) == response.failure # "none"

\* cells_utils.add_cell_to_service / add_cell_to_task_log /
\* add_cell_to_compute_node: the entry, marked with the cell it came from
add_cell_to_item(item, cell_name) == <<cell_name, item>>

AppendTaggedInFront(items, cell_name, ret_list) ==
    [j \in 1..Len(items) |-> add_cell_to_item(items[j], cell_name)] \o ret_list

\* the inner loop "for service in services": every entry of one response
\* is marked with response.cell_name and appended to the list built so far
AppendTagged(items, cell_name, ret_list) ==
    ret_list \o [j \in 1..Len(items) |-> add_cell_to_item(items[j], cell_name)]

RECURSIVE AggregateListsFailSoft(_, _)
AggregateListsFailSoft(rs, ret_list) ==
    IF rs = <<>>
      THEN Returned(ret_list)
      ELSE IF Raises(Head(rs))
        THEN AggregateListsFailSoft(Tail(rs), ret_list)
        ELSE AggregateListsFailSoft(Tail(rs),
                 AppendTagged(Head(rs).value, Head(rs).cell_name, ret_list))

\* the outer loop "for response in responses" of the list broadcasts:
\* value_or_raise() of each response in turn, its exception leaving the
\* operation, and "return ret_services" after the last response
RECURSIVE AggregateLists(_, _)
AggregateLists(rs, ret_list) ==
    IF rs = <<>>
      THEN Returned(ret_list)
      ELSE IF Raises(Head(rs))
        THEN Raised(Head(rs).failure)
        ELSE AggregateLists(Tail(rs),
                 AppendTagged(Head(rs).value, Head(rs).cell_name, ret_list))

\* service_get_all, from ret_services = []
service_get_all(rs) == AggregateLists(rs, <<>>)

\* task_log_get_all, from ret_task_logs = []
task_log_get_all(rs) == AggregateLists(rs, <<>>)

\* compute_node_get_all, from ret_nodes = []
compute_node_get_all(rs) == AggregateLists(rs, <<>>)

AddStatsOverwrite(totals, data) ==
    [key \in DOMAIN totals \cup DOMAIN data |->
        IF key \in DOMAIN data THEN data[key] ELSE totals[key]]

AddStatsFirstWins(totals, data) ==
    [key \in DOMAIN totals \cup DOMAIN data |->
        IF key \in DOMAIN totals THEN totals[key] ELSE data[key]]

\* "for key, val in data.iteritems(): totals.setdefault(key, 0);
\* totals[key] += val"
AddStats(totals, data) ==
    [key \in DOMAIN totals \cup DOMAIN data |->
        (IF key \in DOMAIN totals THEN totals[key] ELSE 0)
            + (IF key \in DOMAIN data THEN data[key] ELSE 0)]

\* the loop of compute_node_stats over the responses
RECURSIVE SumStats(_, _)
SumStats(rs, totals) ==
    IF rs = <<>>
      THEN Returned(totals)
      ELSE IF Raises(Head(rs))
        THEN Raised(Head(rs).failure)
        ELSE SumStats(Tail(rs), AddStats(totals, Head(rs).value))

\* compute_node_stats, from totals = {}
compute_node_stats(rs) == SumStats(rs, <<>>)

\* the manager is asked for the services of all cells, and the cells
\* answer with one of the response lists in RS
service_get_all_from(RS) ==
    /\ op = "none"
    /\ \E rs \in RS :
         /\ op' = "service_get_all"
         /\ responses' = rs
         /\ outcome' = service_get_all(rs)
    /\ UNCHANGED <<healvars, tickvars, histvars, mgrvars, addrvars>>

service_get_all_call == service_get_all_from(SeqsUpTo(ListResponse, MaxResponses))

\* the manager is asked for the task logs of all cells, and the cells
\* answer with one of the response lists in RS
task_log_get_all_from(RS) ==
    /\ op = "none"
    /\ \E rs \in RS :
         /\ op' = "task_log_get_all"
         /\ responses' = rs
         /\ outcome' = task_log_get_all(rs)
    /\ UNCHANGED <<healvars, tickvars, histvars, mgrvars, addrvars>>

task_log_get_all_call == task_log_get_all_from(SeqsUpTo(ListResponse, MaxResponses))

\* the manager is asked for the compute nodes of all cells, and the cells
\* answer with one of the response lists in RS
compute_node_get_all_from(RS) ==
    /\ op = "none"
    /\ \E rs \in RS :
         /\ op' = "compute_node_get_all"
         /\ responses' = rs
         /\ outcome' = compute_node_get_all(rs)
    /\ UNCHANGED <<healvars, tickvars, histvars, mgrvars, addrvars>>

compute_node_get_all_call == compute_node_get_all_from(SeqsUpTo(ListResponse, MaxResponses))

\* the manager is asked for the compute node statistics of all cells, and the cells
\* answer with one of the response lists in RS
compute_node_stats_from(RS) ==
    /\ op = "none"
    /\ \E rs \in RS :
         /\ op' = "compute_node_stats"
         /\ responses' = rs
         /\ outcome' = compute_node_stats(rs)
    /\ UNCHANGED <<healvars, tickvars, histvars, mgrvars, addrvars>>

compute_node_stats_call == compute_node_stats_from(SeqsUpTo(StatsResponse, MaxResponses))

\* the outcome has gone back to the RPC caller
operation_done ==
    /\ op # "none"
    /\ op' = "none"
    /\ responses' = <<>>
    /\ outcome' = NoReturn
    /\ UNCHANGED <<healvars, tickvars, histvars, mgrvars, addrvars>>

NextAgg ==
    \/ service_get_all_call
    \/ task_log_get_all_call
    \/ compute_node_get_all_call
    \/ compute_node_stats_call
    \/ operation_done

\* the aggregation does not depend on how the manager is configured: one
\* configuration is explored
InitAgg ==
    /\ Init
    /\ parent_cells = <<>>
    /\ num_instances = 0
    /\ threshold = 0

SpecAgg == InitAgg /\ [][NextAgg]_vars

(* ---------------------------------------------------------------------- *)
(* Start-up, propagation, casts and targeted operations                    *)
(* ---------------------------------------------------------------------- *)

\* what state_manager.get_child_cells() may return
ChildCellLists == {<<>>, <<"child">>}

\* one call into the driver or msg_runner: the method, whether a reply was
\* asked for, and whether the transport delivered the message
Sent(msg, call, ok) == [msg |-> msg, call |-> call, ok |-> ok]

\* msg_runner.tell_parents_our_capabilities / tell_parents_our_capacities:
\* upward broadcasts whose failures are logged, not raised
UpwardBroadcastRaises(ok) == FALSE

ParentsUpdateIfLeaf(oks) ==
    IF child_cells # <<>>
      THEN <<>>
      ELSE <<Sent("tell_parents_our_capabilities", FALSE, oks[1]),
             Sent("tell_parents_our_capacities", FALSE, oks[2])>>

\* the body of _update_our_parents: the capability push, then the capacity
\* push unless the first call raised
ParentsUpdate(oks) ==
    <<Sent("tell_parents_our_capabilities", FALSE, oks[1])>>
        \o (IF UpwardBroadcastRaises(oks[1])
              THEN <<>>
              ELSE <<Sent("tell_parents_our_capacities", FALSE, oks[2])>>)

StartupMessagesBoth(oks) ==
    <<Sent("ask_children_for_capabilities", FALSE, oks[1]),
      Sent("ask_children_for_capacities", FALSE, oks[2])>> \o ParentsUpdate(oks)

\* the if/else of post_start_hook on get_child_cells()
StartupMessages(oks) ==
    IF child_cells # <<>>
      THEN <<Sent("ask_children_for_capabilities", FALSE, oks[1]),
             Sent("ask_children_for_capacities", FALSE, oks[2])>>
      ELSE ParentsUpdate(oks)

\* post_start_hook: driver.start_consumers(msg_runner), then the branch
post_start_hook ==
    /\ ~started
    /\ op = "none"
    /\ started' = TRUE
    /\ op' = "post_start_hook"
    /\ \E oks \in [1..2 -> BOOLEAN] :
         sent' = <<Sent("start_consumers", FALSE, TRUE)>> \o StartupMessages(oks)
    /\ outcome' = Returned(<<>>)
    /\ UNCHANGED <<healvars, tickvars, histvars, responses, child_cells, addrvars>>

\* a periodic run of _update_our_parents
update_our_parents ==
    /\ started
    /\ op = "none"
    /\ op' = "_update_our_parents"
    /\ \E oks \in [1..2 -> BOOLEAN] : sent' = ParentsUpdate(oks)
    /\ outcome' = Returned(<<>>)
    /\ UNCHANGED <<healvars, tickvars, histvars, responses, child_cells, started,
                   addrvars>>

\* the topology store reloads the cell table: child cells come and go
child_cells_reloaded ==
    /\ op = "none"
    /\ \E c \in ChildCellLists \ {child_cells} : child_cells' = c
    /\ UNCHANGED <<healvars, tickvars, histvars, aggvars, started, sent, addrvars>>

CastRestartsCursor(name) ==
    /\ op = "none"
    /\ op' = name
    /\ \E ok \in BOOLEAN : sent' = <<Sent(name, FALSE, ok)>>
    /\ outcome' = Returned(<<>>)
    /\ instances_to_heal' = <<>>
    /\ UNCHANGED <<parent_cells, num_instances, threshold, pc, updated_list, i,
                   instance_uuid, instance, updated_since, exit, tickvars,
                   histvars, responses, child_cells, started, addrvars>>

\* an operation that hands one message to msg_runner and returns None
Cast(name) ==
    /\ op = "none"
    /\ op' = name
    /\ \E ok \in BOOLEAN : sent' = <<Sent(name, FALSE, ok)>>
    /\ outcome' = Returned(<<>>)
    /\ UNCHANGED <<healvars, tickvars, histvars, responses, child_cells, started,
                   addrvars>>

schedule_run_instance == Cast("schedule_run_instance")
instance_update_at_top == Cast("instance_update_at_top")
instance_destroy_at_top == Cast("instance_destroy_at_top")
instance_delete_everywhere == Cast("instance_delete_everywhere")
instance_fault_create_at_top == Cast("instance_fault_create_at_top")
bw_usage_update_at_top == Cast("bw_usage_update_at_top")
sync_instances == Cast("sync_instances")

\* get_cell_info_for_neighbors: answered by the state manager, no message
get_cell_info_for_neighbors ==
    /\ op = "none"
    /\ op' = "get_cell_info_for_neighbors"
    /\ sent' = <<>>
    /\ outcome' = Returned(<<"cell_info">>)
    /\ UNCHANGED <<healvars, tickvars, histvars, responses, child_cells, started,
                   addrvars>>

\* the response to a targeted message: one value, or a failure
TargetedResponse ==
    {Response(c, "none", <<x>>) : c \in Cells, x \in Items}
        \cup {Response(c, f, <<>>) : c \in Cells, f \in Failures}

\* response.value_or_raise() as the last statement of an operation
Unwrap(response) ==
    IF Raises(response) THEN Raised(response.failure) ELSE Returned(response.value)

\* "if call: return response.value_or_raise()", else the implicit None
RunComputeApiReturn(call, response) ==
    IF call THEN Unwrap(response) ELSE Returned(<<>>)

\* run_compute_api_method(ctxt, cell_name, method_info, call)
run_compute_api_method ==
    /\ op = "none"
    /\ op' = "run_compute_api_method"
    /\ \E call \in BOOLEAN, response \in TargetedResponse :
         /\ sent' = <<Sent("run_compute_api_method", call, TRUE)>>
         /\ responses' = <<response>>
         /\ outcome' = RunComputeApiReturn(call, response)
    /\ UNCHANGED <<healvars, tickvars, histvars, child_cells, started, addrvars>>

\* "return response.value_or_raise()" of proxy_rpc_to_manager, whatever
\* call is
ProxyRpcReturn(call, response) == Unwrap(response)

\* proxy_rpc_to_manager(ctxt, topic, rpc_message, call, timeout)
proxy_rpc_to_manager ==
    /\ op = "none"
    /\ op' = "proxy_rpc_to_manager"
    /\ \E call \in BOOLEAN, response \in TargetedResponse :
         /\ sent' = <<Sent("proxy_rpc_to_manager", call, TRUE)>>
         /\ responses' = <<response>>
         /\ outcome' = ProxyRpcReturn(call, response)
    /\ UNCHANGED <<healvars, tickvars, histvars, child_cells, started, addrvars>>

\* service_get_by_compute_host: the service, marked with response.cell_name
service_get_by_compute_host ==
    /\ op = "none"
    /\ op' = "service_get_by_compute_host"
    /\ \E response \in TargetedResponse :
         /\ sent' = <<Sent("service_get_by_compute_host", TRUE, TRUE)>>
         /\ responses' = <<response>>
         /\ outcome' = IF Raises(response)
                         THEN Raised(response.failure)
                         ELSE Returned(<<add_cell_to_item(response.value[1],
                                                          response.cell_name)>>)
    /\ UNCHANGED <<healvars, tickvars, histvars, child_cells, started, addrvars>>

\* compute_node_get: the node, marked with the cell_name of the request
compute_node_get ==
    /\ op = "none"
    /\ op' = "compute_node_get"
    /\ \E cell_name \in Cells, response \in TargetedResponse :
         /\ sent' = <<Sent("compute_node_get", TRUE, TRUE)>>
         /\ responses' = <<response>>
         /\ outcome' = IF Raises(response)
                         THEN Raised(response.failure)
                         ELSE Returned(<<add_cell_to_item(response.value[1],
                                                          cell_name)>>)
    /\ UNCHANGED <<healvars, tickvars, histvars, child_cells, started, addrvars>>

\* the operation has returned to its caller
operation_returned ==
    /\ op # "none"
    /\ op' = "none"
    /\ responses' = <<>>
    /\ outcome' = NoReturn
    /\ sent' = <<>>
    /\ UNCHANGED <<healvars, tickvars, histvars, child_cells, started, addrvars>>

\* the operations that are neither the reconciliation task nor a broadcast
\* with aggregation
OtherOperation ==
    \/ post_start_hook
    \/ update_our_parents
    \/ schedule_run_instance
    \/ get_cell_info_for_neighbors
    \/ run_compute_api_method
    \/ instance_update_at_top
    \/ instance_destroy_at_top
    \/ instance_delete_everywhere
    \/ instance_fault_create_at_top
    \/ bw_usage_update_at_top
    \/ sync_instances
    \/ service_get_by_compute_host
    \/ proxy_rpc_to_manager
    \/ compute_node_get

NextOps ==
    \/ child_cells_reloaded
    \/ OtherOperation
    \/ operation_returned

SpecOps == Init /\ [][NextOps]_vars

(* ---------------------------------------------------------------------- *)
(* The task over a store with resident records, ticks recurring            *)
(* ---------------------------------------------------------------------- *)

\* the records that stay in the store and stay eligible: every scan returns
\* them and every lookup finds them; r3 comes and goes
Residents == {"r1", "r2"}

\* the IDs of a sequence
Range(s) == {s[k] : k \in DOMAIN s}

\* a pull; a scan it makes returns every resident record
next_instance_resident ==
    /\ next_instance
    /\ scans' = scans + 1 =>
          Residents \subseteq Range(instances_to_heal') \cup {instance_uuid'}

\* a lookup; a resident record is found
heal_instances_lookup_resident ==
    /\ heal_instances_lookup
    /\ instance_uuid \in Residents => pc' = "sync"

NextLive ==
    \/ heal_instances_start
    \/ heal_instances_yield
    \/ next_instance_resident
    \/ heal_instances_lookup_resident
    \/ heal_instances_sync

\* the periodic task is started again and again, and a greenthread that
\* yielded is resumed
SpecLive == Init /\ [][NextLive]_vars /\ WF_vars(NextLive)

(* ---------------------------------------------------------------------- *)
(* The manager as a whole: the task and the operations interleaved         *)
(* ---------------------------------------------------------------------- *)

\* the task is at a point where it lets other greenthreads run: between
\* two ticks, or in time.sleep(0)
AtYieldPoint == pc \in {"idle", "yield"}

\* the environment of the interleaved runs: every message is delivered, and
\* a cell that answers is cellA, with the item 1
PlainAnswer == Response("cellA", "none", <<1>>)

PlainRun ==
    /\ \A k \in DOMAIN sent : sent[k].ok
    /\ \A k \in DOMAIN responses : responses[k] = PlainAnswer

\* a broadcast with aggregation: no cell answers, or cellA does (no cell
\* when statistics are asked for)
BroadcastOperation ==
    \/ service_get_all_from({<<>>, <<PlainAnswer>>})
    \/ task_log_get_all_from({<<>>, <<PlainAnswer>>})
    \/ compute_node_get_all_from({<<>>, <<PlainAnswer>>})
    \/ compute_node_stats_from({<<>>})

\* the reconciliation task, and the operations running while it yields; an
\* operation that has started returns before the task goes on
NextManager ==
    \/ op = "none" /\ cells_reloaded
    \/ op = "none" /\ heal_instances_start
    \/ op = "none" /\ heal_instances_yield
    \/ op = "none" /\ next_instance
    \/ op = "none" /\ heal_instances_lookup
    \/ op = "none" /\ heal_instances_sync
    \/ AtYieldPoint /\ OtherOperation /\ PlainRun'
    \/ AtYieldPoint /\ BroadcastOperation
    \/ operation_returned

SpecManager == Init /\ [][NextManager]_vars

(* ---------------------------------------------------------------------- *)
(* Target addresses: cell_path!item@host                                   *)
(* ---------------------------------------------------------------------- *)

\* the characters of the literals: a letter and the three reserved ones
Chars == {"a", "!", "@", "."}

\* the non-empty texts of at most n characters
Texts(n) == UNION {[1..k -> Chars] : k \in 1..n}

\* the cell paths explored: at most MaxSegs names of one character
CellPaths == SeqsUpTo(Texts(1), MaxSegs)

\* the hosts explored: none, or a text
Hosts == {<<>>} \cup {<<t>> : t \in Texts(MaxStr)}

\* the result of parse on a literal it rejects
MalformedAddress == Address(<<<<"MalformedAddress">>>>, <<>>, <<>>)

\* position of the first c in the text s, 0 if there is none
FirstIndex(s, c) ==
    IF \E k \in DOMAIN s : s[k] = c
      THEN CHOOSE k \in DOMAIN s : s[k] = c /\ \A j \in 1..(k - 1) : s[j] # c
      ELSE 0

\* position of the last c in the text s, 0 if there is none
LastIndex(s, c) ==
    IF \E k \in DOMAIN s : s[k] = c
      THEN CHOOSE k \in DOMAIN s : s[k] = c /\ \A j \in (k + 1)..Len(s) : s[j] # c
      ELSE 0

\* the names of a path joined by the path separator
RECURSIVE JoinPath(_)
JoinPath(path) ==
    IF path = <<>> THEN <<>>
    ELSE IF Len(path) = 1 THEN path[1]
    ELSE path[1] \o <<".">> \o JoinPath(Tail(path))

\* a text cut at every path separator
RECURSIVE SplitAtDots(_)
SplitAtDots(s) ==
    IF FirstIndex(s, ".") = 0
      THEN <<s>>
      ELSE <<SubSeq(s, 1, FirstIndex(s, ".") - 1)>>
               \o SplitAtDots(SubSeq(s, FirstIndex(s, ".") + 1, Len(s)))

\* the cell path a path text stands for; the empty text is this cell
SplitPath(s) == IF s = <<>> THEN <<>> ELSE SplitAtDots(s)

\* format(addr): cell_path!item, followed by @host when there is a host
FormatAddress(a) ==
    JoinPath(a.cell_path) \o <<"!">> \o a.item
        \o (IF a.host = <<>> THEN <<>> ELSE <<"@">> \o a.host[1])

ItemSeparatorLast(s) == LastIndex(s, "!")

\* where parse cuts the cell path from the item: at the first "!"
ItemSeparator(s) == FirstIndex(s, "!")

\* parse(text): the host after the last "@" if there is one, then the cell
\* path before the first "!" of what remains and the item after it;
\* MalformedAddress without "!" or with an empty item
ParseAddress(text) ==
    LET at == LastIndex(text, "@")
        host == IF at = 0 THEN <<>> ELSE <<SubSeq(text, at + 1, Len(text))>>
        rest == IF at = 0 THEN text ELSE SubSeq(text, 1, at - 1)
        bang == ItemSeparator(rest)
        item == SubSeq(rest, bang + 1, Len(rest))
    IN  IF bang = 0 \/ item = <<>>
          THEN MalformedAddress
          ELSE Address(SplitPath(SubSeq(rest, 1, bang - 1)), item, host)

\* an address is written out
format_address ==
    /\ addr = NoAddress
    /\ \E p \in CellPaths, it \in Texts(MaxStr), h \in Hosts :
         /\ addr' = Address(p, it, h)
         /\ literal' = FormatAddress(Address(p, it, h))
    /\ UNCHANGED <<healvars, tickvars, histvars, aggvars, mgrvars, parsed>>

\* the literal is read back
parse_address ==
    /\ addr # NoAddress
    /\ parsed = NoAddress
    /\ parsed' = ParseAddress(literal)
    /\ UNCHANGED <<healvars, tickvars, histvars, aggvars, mgrvars, addr, literal>>

\* the address has been dealt with
address_done ==
    /\ parsed # NoAddress
    /\ addr' = NoAddress /\ literal' = <<>> /\ parsed' = NoAddress
    /\ UNCHANGED <<healvars, tickvars, histvars, aggvars, mgrvars>>

NextAddr ==
    \/ format_address
    \/ parse_address
    \/ address_done

\* addresses do not depend on how the manager is configured: one
\* configuration is explored
InitAddr ==
    /\ Init
    /\ parent_cells = <<>>
    /\ num_instances = 0
    /\ threshold = 0

SpecAddr == InitAddr /\ [][NextAddr]_vars

(* ---------------------------------------------------------------------- *)
(* Properties of the reconciliation task                                   *)
(* ---------------------------------------------------------------------- *)

\* a tick has run to its end (the task returned)
TickOver == pc = "idle" /\ exit # "none"

\* emissions made so far in this tick
Emissions == updates + destroys

\* C1: in any tick the number of upward emissions (update-at-top plus
\* destroy-at-top) is at most instance_update_num_instances, whatever the
\* backlog and the lookups' outcomes.
C1_EmissionsWithinBudget == Emissions <= num_instances

\* a tick that used its whole budget and left IDs pending
C1_Witness ==
    /\ TickOver /\ exit = "budget"
    /\ num_instances >= 1
    /\ Emissions = num_instances
    /\ instances_to_heal # <<>>

\* C2: with no parent cells a tick does nothing: no yield, scan, pull,
\* lookup or emission, and instances_to_heal is left as it was.
C2_NoParentsNoWork ==
    [][(heal_instances_start /\ parent_cells = <<>>) =>
          /\ pc' = "idle" /\ exit' = "no_parents"
          /\ instances_to_heal' = instances_to_heal
          /\ yields' = 0 /\ pulls' = 0 /\ scans' = 0
          /\ found_live' = 0 /\ found_deleted' = 0 /\ not_found' = 0
          /\ updates' = 0 /\ destroys' = 0]_vars

\* a tick skipped for want of parents while IDs were pending
C2_Witness ==
    /\ TickOver /\ exit = "no_parents"
    /\ instances_to_heal # <<>>
    /\ backlog = Len(instances_to_heal)

\* C3: every record a tick looks up successfully gives exactly one emission
\* in that tick, a destroy-at-top if the record read had deleted = True and
\* an update-at-top if it had deleted = False (the record fetched last is
\* still to be emitted while the task stands before _sync_instance).
C3_EmissionPerFoundRecord ==
    /\ updates = found_live - (IF pc = "sync" /\ ~instance.deleted THEN 1 ELSE 0)
    /\ destroys = found_deleted - (IF pc = "sync" /\ instance.deleted THEN 1 ELSE 0)

\* a finished tick that emitted one message of each kind
C3_Witness ==
    /\ TickOver
    /\ found_live = 1 /\ found_deleted = 1
    /\ updates = 1 /\ destroys = 1

\* C5: a tick performs at most one record-store scan, and a scan happens
\* only in a pull that finds the pending queue empty.
C5_OneScanPerTick ==
    /\ [](scans <= 1)
    /\ [][scans' = scans + 1 => (pc = "pull" /\ instances_to_heal = <<>>)]_vars

\* a tick that scanned once, met not-found records and pulled again on an
\* empty queue without scanning again
C5_Witness ==
    /\ TickOver /\ exit = "empty"
    /\ scans = 1 /\ not_found >= 1 /\ scanned >= 1
    /\ pulls >= 3

C7_NotFoundRetriesSlot ==
    /\ [][(pc = "lookup" /\ not_found' = not_found + 1) =>
            /\ pc' = "yield" /\ i' = i /\ exit' = exit
            /\ updates' = updates /\ destroys' = destroys]_vars
    /\ []((TickOver /\ exit # "no_parents") =>
            \/ Emissions = num_instances
            \/ (exit = "empty" /\ instances_to_heal = <<>> /\ scans = 1))

\* a tick that filled its budget of two although lookups came back not found
C7_Witness ==
    /\ TickOver /\ exit = "budget"
    /\ num_instances >= 2 /\ Emissions = num_instances
    /\ not_found >= 2

(* ---------------------------------------------------------------------- *)
(* Properties of the cursor, over the recorded pulls                       *)
(* ---------------------------------------------------------------------- *)

\* four pulls are on record, there is no threshold, and the first pull
\* scanned the store and got r1, r2, r3 in some order
FirstScanFull ==
    /\ Len(pull_log) >= 4
    /\ pull_log[1].nth = 1
    /\ threshold = 0
    /\ pull_log[1].scan # <<>>
    /\ Len(pull_log[1].scan[1]) = Cardinality(IDs)

\* every scan on record returned all of r1, r2, r3
EveryScanFull ==
    \A k \in DOMAIN pull_log :
        pull_log[k].scan # <<>> => Len(pull_log[k].scan[1]) = Cardinality(IDs)

\* the first three pulls return r1, r2, r3, each once
FirstThreeOnce ==
    /\ {pull_log[k].val : k \in 1..3} = IDs
    /\ \A k \in 2..3 : pull_log[k].scan = <<>>

\* C4 as stated: with a store whose scan returns r1, r2, r3, the first
\* three pulls return them each once and the fourth pull returns Empty
\* after at most one more scan, however the pulls fall into ticks.
C4_FourthPullEmpty ==
    (FirstScanFull /\ EveryScanFull) =>
        /\ FirstThreeOnce
        /\ Len(pull_log[4].scan) <= 1
        /\ pull_log[4].val = Empty

\* C4 (amended): once the first scan returned r1, r2, r3, the first three
\* pulls return them each once; the fourth pull returns Empty without a
\* scan when it falls into the tick of that first scan, and otherwise makes
\* exactly one more scan and returns the first ID of its result, Empty only
\* if that result is empty.
C4_FourthPullRefillsInLaterTick ==
    FirstScanFull =>
        /\ FirstThreeOnce
        /\ pull_log[4].nth = 4 =>
              (pull_log[4].scan = <<>> /\ pull_log[4].val = Empty)
        /\ pull_log[4].nth < 4 =>
              /\ Len(pull_log[4].scan) = 1
              /\ pull_log[4].val = (IF pull_log[4].scan[1] = <<>>
                                      THEN Empty
                                      ELSE pull_log[4].scan[1][1])

\* the fourth pull came in a later tick than the first scan, scanned again
\* and returned an ID
C4_Witness ==
    /\ FirstScanFull
    /\ pull_log[4].nth < 4
    /\ pull_log[4].val \in IDs

(* ---------------------------------------------------------------------- *)
(* Properties of the aggregation                                           *)
(* ---------------------------------------------------------------------- *)

ListOps == {"service_get_all", "task_log_get_all", "compute_node_get_all"}

SomeFailure == \E k \in DOMAIN responses : responses[k].failure # "none"

\* the failure of the first failing response, in the order of the responses
FirstFailure ==
    LET k == CHOOSE k \in DOMAIN responses :
                 /\ responses[k].failure # "none"
                 /\ \A j \in 1..(k - 1) : responses[j].failure = "none"
    IN  responses[k].failure

\* C8: a list broadcast with a failure among its responses fails with the
\* failure of the first failing response and returns no list, not even the
\* entries of the cells that answered.
C8_FirstFailureFailsBroadcast ==
    (op \in ListOps /\ SomeFailure) =>
        /\ ~outcome.returned
        /\ outcome.raised = FirstFailure
        /\ outcome.value = <<>>

\* a cell answered with entries, a later one failed, a third failure or
\* answer may follow
C8_Witness ==
    /\ op \in ListOps
    /\ Len(responses) >= 2
    /\ responses[1].failure = "none" /\ responses[1].value # <<>>
    /\ responses[2].failure # "none"
    /\ outcome.raised = responses[2].failure

\* number of entries in the responses before the k-th
RECURSIVE Offset(_)
Offset(k) == IF k <= 1 THEN 0 ELSE Offset(k - 1) + Len(responses[k - 1].value)

\* C9: a list broadcast whose responses all succeeded returns their lists
\* concatenated in the order of the responses, each list in its own order,
\* every entry marked with the cell of its response; the length is the sum
\* of the lists' lengths (no responses: the empty list).
C9_ConcatenationInOrder ==
    (op \in ListOps /\ ~SomeFailure) =>
        /\ outcome.returned
        /\ Len(outcome.value) = Offset(Len(responses) + 1)
        /\ \A k \in DOMAIN responses : \A j \in DOMAIN responses[k].value :
              outcome.value[Offset(k) + j] =
                  <<responses[k].cell_name, responses[k].value[j]>>

\* two cells answered, the first with two entries
C9_Witness ==
    /\ op \in ListOps
    /\ ~SomeFailure
    /\ Len(responses) = 2
    /\ responses[1].cell_name # responses[2].cell_name
    /\ Len(responses[1].value) = 2 /\ Len(responses[2].value) >= 1
    /\ Len(outcome.value) >= 3

\* sum of the values the first k responses hold under key (none: zero)
RECURSIVE KeySum(_, _)
KeySum(key, k) ==
    IF k = 0
      THEN 0
      ELSE KeySum(key, k - 1)
             + (IF key \in DOMAIN responses[k].value
                  THEN responses[k].value[key] ELSE 0)

\* C10: compute_node_stats over successful responses returns the map whose
\* keys are the union of the cells' keys and whose value at a key is the
\* sum of the cells' values there, a cell without the key adding zero (no
\* responses: the empty map).
C10_StatsSummedPerKey ==
    (op = "compute_node_stats" /\ ~SomeFailure) =>
        /\ outcome.returned
        /\ DOMAIN outcome.value =
              UNION {DOMAIN responses[k].value : k \in DOMAIN responses}
        /\ \A key \in DOMAIN outcome.value :
              outcome.value[key] = KeySum(key, Len(responses))

\* one cell reports x and y, the other x alone, all values positive
C10_Witness ==
    /\ op = "compute_node_stats"
    /\ ~SomeFailure
    /\ Len(responses) = 2
    /\ DOMAIN responses[1].value = {"x", "y"}
    /\ DOMAIN responses[2].value = {"x"}
    /\ responses[1].value["x"] > 0 /\ responses[2].value["x"] > 0
    /\ outcome.value["x"] = responses[1].value["x"] + responses[2].value["x"]
    /\ outcome.value["y"] = responses[1].value["y"]


(* ---------------------------------------------------------------------- *)
(* Order of the responses                                                  *)
(* ---------------------------------------------------------------------- *)

\* the orders in which n responses may come back
Orders(n) == {p \in [1..n -> 1..n] : \A a, b \in 1..n : a # b => p[a] # p[b]}

\* the responses on hand, in the order p
Reordered(p) == [k \in DOMAIN responses |-> responses[p[k]]]

\* what the operation o makes of the responses rs
Aggregated(o, rs) ==
    CASE o = "service_get_all" -> service_get_all(rs)
      [] o = "task_log_get_all" -> task_log_get_all(rs)
      [] o = "compute_node_get_all" -> compute_node_get_all(rs)
      [] o = "compute_node_stats" -> compute_node_stats(rs)

\* the same map: the same keys with the same values
SameMap(f, g) == DOMAIN f = DOMAIN g /\ \A key \in DOMAIN f : f[key] = g[key]

\* how often x occurs in the list l
Occurrences(x, l) == Cardinality({j \in DOMAIN l : l[j] = x})

\* the same entries, each as often, in whatever order
SameEntries(l, m) ==
    /\ Len(l) = Len(m)
    /\ \A j \in DOMAIN l : Occurrences(l[j], l) = Occurrences(l[j], m)

\* C11: the aggregation does not depend on the order the cells' responses
\* come back in: in every order of the same responses the operation fails
\* if it fails in one, compute_node_stats returns the same map, and a list
\* broadcast returns the same cell-tagged entries, each as often.
C11_OrderOfResponsesImmaterial ==
    op # "none" =>
        \A p \in Orders(Len(responses)) :
            LET other == Aggregated(op, Reordered(p)) IN
            /\ other.returned = outcome.returned
            /\ (outcome.returned /\ op = "compute_node_stats") =>
                  SameMap(other.value, outcome.value)
            /\ (outcome.returned /\ op \in ListOps) =>
                  SameEntries(other.value, outcome.value)

\* two cells report different positive values under the same key
C11_Witness ==
    /\ op = "compute_node_stats"
    /\ outcome.returned
    /\ Len(responses) = 2
    /\ "x" \in DOMAIN responses[1].value /\ "x" \in DOMAIN responses[2].value
    /\ responses[1].value["x"] # responses[2].value["x"]
    /\ outcome.value["x"] = responses[1].value["x"] + responses[2].value["x"]


(* ---------------------------------------------------------------------- *)
(* Properties of start-up, propagation and the targeted operations         *)
(* ---------------------------------------------------------------------- *)

\* the methods called by the operation, in order
Methods == [k \in DOMAIN sent |-> sent[k].msg]

\* C12: post_start_hook starts the consumers before it sends anything, and
\* then takes exactly one branch: with a child cell it asks the children for
\* capabilities and capacities and pushes nothing to the parents; without
\* one it pushes its capabilities and capacities to the parents and asks
\* nothing of children.
C12_StartupTakesOneBranch ==
    op = "post_start_hook" =>
        /\ sent[1].msg = "start_consumers"
        /\ child_cells # <<>> =>
              Methods = <<"start_consumers", "ask_children_for_capabilities",
                          "ask_children_for_capacities">>
        /\ child_cells = <<>> =>
              Methods = <<"start_consumers", "tell_parents_our_capabilities",
                          "tell_parents_our_capacities">>

\* the start of a cell that has a child
C12_Witness ==
    /\ op = "post_start_hook"
    /\ child_cells # <<>>
    /\ Len(sent) = 3

C14_CastReturnsNothing ==
    (op \in {"run_compute_api_method", "proxy_rpc_to_manager"}
            /\ ~sent[1].call) =>
        /\ outcome.returned
        /\ outcome.raised = "none"
        /\ outcome.value = <<>>


(* ---------------------------------------------------------------------- *)
(* Properties of the addresses                                             *)
(* ---------------------------------------------------------------------- *)

\* the text s holds the character c
Holds(s, c) == \E k \in DOMAIN s : s[k] = c

\* C15 as stated: every address with a non-empty item, a host or none and
\* any cell path is read back from its literal as itself.
C15_RoundTrip == parsed # NoAddress => parsed = addr

\* the addresses whose cell names hold neither "!" nor the path separator,
\* whose host, if any, holds no "@", and which without a host hold no "@" in
\* the item or in a cell name
Unambiguous(a) ==
    /\ \A k \in DOMAIN a.cell_path :
          ~Holds(a.cell_path[k], "!") /\ ~Holds(a.cell_path[k], ".")
    /\ a.host # <<>> => ~Holds(a.host[1], "@")
    /\ a.host = <<>> =>
          /\ ~Holds(a.item, "@")
          /\ \A k \in DOMAIN a.cell_path : ~Holds(a.cell_path[k], "@")

\* C15 (amended): an address is read back from its literal as itself
\* exactly when its cell names hold neither "!" nor the path separator, its
\* host, if any, holds no "@", and, when it has no host, neither its item
\* nor its cell names hold "@".
C15_RoundTripOfUnambiguous ==
    parsed # NoAddress => (parsed = addr <=> Unambiguous(addr))

\* an address with a two-name path, an item holding "!" and a host, read
\* back as itself
C15_Witness ==
    /\ parsed # NoAddress
    /\ parsed = addr
    /\ Len(addr.cell_path) = 2
    /\ Holds(addr.item, "!")
    /\ addr.host # <<>>


(* ---------------------------------------------------------------------- *)
(* Properties of the end of a tick and of its yield points                 *)
(* ---------------------------------------------------------------------- *)

\* what a tick has done: its scans, pulls, lookups and emissions
TickWork ==
    <<scans, pulls, found_live, found_deleted, not_found, updates, destroys,
      failed>>

\* C16: a cursor pull that returns Empty ends the tick at once, in the slot
\* it was made in, and until the next tick starts no scan, lookup, pull or
\* emission is made, even when budget slots remain.
C16_EmptyPullEndsTick ==
    [][/\ (pc = "pull" /\ pulls' = pulls + 1 /\ instance_uuid' = Empty) =>
              /\ pc' = "idle" /\ exit' = "empty" /\ i' = i
              /\ UNCHANGED <<found_live, found_deleted, not_found, updates,
                             destroys, failed>>
       /\ (pc = "idle" /\ exit = "empty") =>
              \/ heal_instances_start
              \/ pc' = "idle" /\ exit' = "empty" /\ UNCHANGED TickWork]_vars

\* a tick ended by an Empty pull in its first slot with a second slot unused
C16_Witness ==
    /\ TickOver /\ exit = "empty"
    /\ instance_uuid = Empty
    /\ pulls >= 1
    /\ i + 1 < num_instances

\* C17: in a tick every cursor pull comes right after exactly one yield of
\* its own, retries after a not-found lookup included: the yields of the
\* tick are its pulls, plus one while a pull is due; hence a yield lies
\* between any two pulls and between any two emissions.
C17_OneYieldBeforeEachPull ==
    /\ yields = pulls + (IF pc = "pull" THEN 1 ELSE 0)
    /\ Emissions <= pulls

\* a finished tick that retried a slot after a not-found lookup and made
\* two emissions
C17_Witness ==
    /\ TickOver
    /\ not_found >= 1
    /\ Emissions >= 2
    /\ yields = pulls
    /\ pulls >= 3


(* ---------------------------------------------------------------------- *)
(* Termination of a tick                                                   *)
(* ---------------------------------------------------------------------- *)

\* record lookups made so far in this tick
Lookups == found_live + found_deleted + not_found

\* a step of the running task
TaskStep ==
    \/ heal_instances_yield
    \/ next_instance
    \/ heal_instances_lookup
    \/ heal_instances_sync

\* C19: a tick scans at most once and every lookup uses up one of the IDs
\* pending at its start or returned by its scan, so its lookups are at most
\* those IDs, its pulls at most one more and its yields at most one more
\* again, not-found retries included; and a running tick can always take
\* its next step. A tick is therefore over after a bounded number of steps.
C19_TickTerminates ==
    /\ scans <= 1
    /\ Lookups <= backlog + scanned
    /\ Lookups + Len(instances_to_heal) <= backlog + scanned
    /\ pulls <= backlog + scanned + 1
    /\ yields <= pulls + 1
    /\ pc # "idle" => ENABLED TaskStep

\* a finished tick in which every lookup failed: it looked up each pending
\* and each scanned ID once and stopped
C19_Witness ==
    /\ TickOver /\ exit = "empty"
    /\ backlog >= 1 /\ scanned = Cardinality(IDs)
    /\ found_live + found_deleted = 0
    /\ not_found = backlog + scanned


(* ---------------------------------------------------------------------- *)
(* Ownership of the cursor                                                 *)
(* ---------------------------------------------------------------------- *)

\* C18: instances_to_heal is changed only by _heal_instances: a step of any
\* other operation (its call or its return) leaves the cursor as it is,
\* also at a yield point in the middle of a tick, and a step that changes
\* the cursor is a pull of the task.
C18_CursorOwnedByTask ==
    [][/\ (aggvars' # aggvars \/ mgrvars' # mgrvars) =>
              instances_to_heal' = instances_to_heal
       /\ instances_to_heal' # instances_to_heal =>
              /\ pc = "pull" /\ pulls' = pulls + 1
              /\ UNCHANGED <<aggvars, mgrvars>>]_vars

\* sync_instances has run while the task is in time.sleep(0) in the middle
\* of a tick, with IDs pending in the cursor
C18_Witness ==
    /\ op = "sync_instances"
    /\ pc = "yield"
    /\ pulls >= 1
    /\ instances_to_heal # <<>>


(* ---------------------------------------------------------------------- *)
(* Self-healing                                                            *)
(* ---------------------------------------------------------------------- *)

\* an emission for the record r is made
Publishes(r) == heal_instances_sync /\ instance.uuid = r

\* C20: a scan is made only when every ID of the scan before it has been
\* pulled; the cursor loses an ID only to a pull that hands it to the
\* lookup, and is left alone when a tick starts, so pending IDs carry over;
\* hence, with parents, a budget of at least one and ticks recurring, every
\* resident record is published again and again.
C20_SelfHealing ==
    /\ [][scans' = scans + 1 => instances_to_heal = <<>>]_vars
    /\ [][instances_to_heal' # instances_to_heal =>
              /\ pc = "pull" /\ pc' = "lookup"
              /\ \/ /\ instances_to_heal # <<>>
                    /\ instance_uuid' = Head(instances_to_heal)
                    /\ instances_to_heal' = Tail(instances_to_heal)
                 \/ /\ instances_to_heal = <<>>
                    /\ scans' = scans + 1
                    /\ instance_uuid' \notin Range(instances_to_heal')]_vars
    /\ (parent_cells # <<>> /\ num_instances >= 1) =>
          \A r \in Residents : []<><<Publishes(r)>>_vars

\* a tick that made no scan and spent its budget on IDs left pending by an
\* earlier tick, the last one a resident record
C20_Witness ==
    /\ TickOver /\ exit = "budget"
    /\ parent_cells # <<>>
    /\ scans = 0 /\ backlog >= 1
    /\ Emissions >= 1
    /\ instance.uuid \in Residents

====
